---- MODULE Spec2Model ----
(***************************************************************************)
(* Model of compass' dependency graph engine (internal/dag), the blocked   *)
(* predicate (internal/model), the task operations of the local store and  *)
(* the store registry (internal/store).                                    *)
(*                                                                         *)
(* Task ids are modelled as the naturals in Ids; their numeric order       *)
(* stands for the lexicographic order of the id strings that sort.Strings  *)
(* uses.  NoId (0) stands for Go's zero string "".                         *)
(***************************************************************************)
EXTENDS Naturals, Sequences, FiniteSets, TLC

\* ------------------------------------------------------------------ bounds
\* MaxTasks: records in a task list given to BuildFromTasks.
\* MaxEdges: dependency entries in such a list, all records together.
\* MaxDeps:  entries of a depends_on list given to a store operation.
MaxTasks == 3
MaxEdges == 2
MaxDeps == 1

\* The id alphabet (the tests use "A", "B", "C").
Ids == {1, 2, 3}
NoId == 0

\* ------------------------------------------------------------ Go map helpers
\* m[k] = v on a Go map: the key is added when absent.
MapPut(m, k, v) == [x \in (DOMAIN m) \cup {k} |-> IF x = k THEN v ELSE m[x]]

\* m[k] on a Go map of slices: the zero value (nil slice) when k is absent.
MapGetSeq(m, k) == IF k \in DOMAIN m THEN m[k] ELSE <<>>

\* All orders in which a `for k := range m` loop may visit the key set S.
RECURSIVE RangeOrders(_)
RangeOrders(S) ==
    IF S = {} THEN {<<>>}
    ELSE UNION {{<<x>> \o p : p \in RangeOrders(S \ {x})} : x \in S}

\* sort.Strings: ascending order, by insertion.
RECURSIVE SortInsert(_, _)
SortInsert(s, x) ==
    IF s = <<>> THEN <<x>>
    ELSE IF x <= Head(s) THEN <<x>> \o s
    ELSE <<Head(s)>> \o SortInsert(Tail(s), x)

RECURSIVE SortStrings(_)
SortStrings(s) == IF s = <<>> THEN <<>> ELSE SortInsert(SortStrings(Tail(s)), Head(s))

\* ------------------------------------------------------------- dag.Graph
\* A task record as the graph engine sees it: [id, deps] (DependsOn).
EmptyGraph == [nodes |-> <<>>, edges |-> <<>>, rev |-> <<>>]

\* The inner loop of BuildFromTasks: g.rev[dep] = append(g.rev[dep], t.ID).
RECURSIVE BuildRev(_, _, _, _)
BuildRev(rev, deps, i, tid) ==
    IF i > Len(deps) THEN rev
    ELSE BuildRev(MapPut(rev, deps[i], Append(MapGetSeq(rev, deps[i]), tid)),
                  deps, i + 1, tid)

\* The outer loop of BuildFromTasks, from task i on.
RECURSIVE BuildLoop(_, _, _)
BuildLoop(tasks, i, g) ==
    IF i > Len(tasks) THEN g
    ELSE LET t == tasks[i] IN
         BuildLoop(tasks, i + 1,
                   [nodes |-> MapPut(g.nodes, t.id, t),
                    edges |-> MapPut(g.edges, t.id, t.deps),
                    rev   |-> BuildRev(g.rev, t.deps, 1, t.id)])

BuildFromTasks(tasks) == BuildLoop(tasks, 1, EmptyGraph)

\* ------------------------------------------------------ ValidateAcyclic
white == 0
gray == 1
black == 2

\* buildCyclePath before the reversal: to, from, parent[from], ... until to.
\* A missing parent reads as "" in Go and the loop would then never end;
\* the model marks that outcome with a NoId entry and stops.
RECURSIVE CyclePathBack(_, _, _)
CyclePathBack(parent, cur, to) ==
    IF cur = to THEN <<>>
    ELSE IF cur = NoId THEN <<NoId>>
    ELSE <<cur>> \o CyclePathBack(parent, parent[cur], to)

Reverse(s) == [i \in 1..Len(s) |-> s[Len(s) + 1 - i]]

\* buildCyclePath without the closing entry: the path is not closed.
buildCyclePath_Open(parent, from, to) ==
    Reverse(<<to>> \o CyclePathBack(parent, from, to))

buildCyclePath(parent, from, to) ==
    Reverse((<<to>> \o CyclePathBack(parent, from, to)) \o <<to>>)

\* DFS state: color and parent are the two maps of ValidateAcyclic (absent
\* keys read as white / ""), err and cycle the returned error.  entered
\* records the calls of dfs, one entry per call, in the order they are made.
DfsInit == [color   |-> [i \in Ids |-> white],
            parent  |-> [i \in Ids |-> NoId],
            err     |-> FALSE,
            cycle   |-> <<>>,
            entered |-> <<>>]

RECURSIVE dfsEdges(_, _, _, _)

\* dfsEdges reporting a cycle on every dependency that is not white: a
\* finished (black) node reached a second time counts as a cycle.
dfsEdges_NoBlack(g, st, node, i) ==
    IF i > Len(g.edges[node]) THEN [st EXCEPT !.color[node] = black]
    ELSE LET dep == g.edges[node][i] IN
         IF dep \notin DOMAIN g.nodes THEN dfsEdges(g, st, node, i + 1)
         ELSE IF st.color[dep] # white
              THEN [st EXCEPT !.err = TRUE,
                              !.cycle = buildCyclePath(st.parent, node, dep)]
         ELSE LET st1 == dfsEdges(g, [st EXCEPT !.parent[dep] = node,
                                                !.color[dep] = gray,
                                                !.entered = Append(@, dep)], dep, 1)
              IN IF st1.err THEN st1 ELSE dfsEdges(g, st1, node, i + 1)

dfsEdges(g, st, node, i) ==
    IF i > Len(g.edges[node]) THEN [st EXCEPT !.color[node] = black]
    ELSE LET dep == g.edges[node][i] IN
         IF dep \notin DOMAIN g.nodes THEN dfsEdges(g, st, node, i + 1)
         ELSE IF st.color[dep] = gray
              THEN [st EXCEPT !.err = TRUE,
                              !.cycle = buildCyclePath(st.parent, node, dep)]
         ELSE IF st.color[dep] = white
              THEN LET st1 == dfsEdges(g, [st EXCEPT !.parent[dep] = node,
                                                     !.color[dep] = gray,
                                                     !.entered = Append(@, dep)], dep, 1)
                   IN IF st1.err THEN st1 ELSE dfsEdges(g, st1, node, i + 1)
         ELSE dfsEdges(g, st, node, i + 1)

dfs(g, st, node) ==
    dfsEdges(g, [st EXCEPT !.color[node] = gray, !.entered = Append(@, node)], node, 1)

\* ValidateLoop that searches from the first node of the range loop only.
ValidateLoop_FirstOnly(g, order, i, st) ==
    IF i > Len(order) THEN st ELSE dfs(g, st, order[i])

\* ValidateLoop that starts a search from every node, finished or not.
RECURSIVE ValidateLoop_EveryNode(_, _, _, _)
ValidateLoop_EveryNode(g, order, i, st) ==
    IF i > Len(order) THEN st
    ELSE LET st1 == dfs(g, st, order[i])
         IN IF st1.err THEN st1 ELSE ValidateLoop_EveryNode(g, order, i + 1, st1)

\* The top-level loop `for id := range g.nodes`, visiting in `order`.
RECURSIVE ValidateLoop(_, _, _, _)
ValidateLoop(g, order, i, st) ==
    IF i > Len(order) THEN st
    ELSE IF st.color[order[i]] = white
         THEN LET st1 == dfs(g, st, order[i])
              IN IF st1.err THEN st1 ELSE ValidateLoop(g, order, i + 1, st1)
         ELSE ValidateLoop(g, order, i + 1, st)

\* ValidateAcyclic with the range loop visiting the nodes in `order`:
\* [err, cycle] (plus the final color and parent maps and the dfs calls).
ValidateAcyclic(g, order) == ValidateLoop(g, order, 1, DfsInit)

\* ------------------------------------------------------ TopologicalSort
\* CountResolvable counting every entry, dangling ones included.
CountResolvable_All(g, deps, i) == Len(deps) + 1 - i

\* inDegree[id]: the number of entries of edges[id] that are nodes.
RECURSIVE CountResolvable(_, _, _)
CountResolvable(g, deps, i) ==
    IF i > Len(deps) THEN 0
    ELSE (IF deps[i] \in DOMAIN g.nodes THEN 1 ELSE 0) + CountResolvable(g, deps, i + 1)

InDegree(g) == [id \in DOMAIN g.nodes |-> CountResolvable(g, g.edges[id], 1)]

\* The zero in-degree nodes in the order the range loop over inDegree meets them.
RECURSIVE InitialQueue(_, _, _)
InitialQueue(inDeg, order, i) ==
    IF i > Len(order) THEN <<>>
    ELSE (IF inDeg[order[i]] = 0 THEN <<order[i]>> ELSE <<>>)
         \o InitialQueue(inDeg, order, i + 1)

\* In-degrees may drop below zero in the code (Go int); the model keeps the
\* value as an offset natural: stored value = in-degree + DegOffset.
DegOffset == MaxTasks + MaxEdges + 2

\* The loop over g.rev[node]: [deg, queue] after the dependents from i on.
RECURSIVE ReleaseDependents(_, _, _, _, _)
ReleaseDependents(g, dependents, i, deg, queue) ==
    IF i > Len(dependents) THEN [deg |-> deg, queue |-> queue]
    ELSE LET d == dependents[i] IN
         IF d \notin DOMAIN g.nodes
         THEN ReleaseDependents(g, dependents, i + 1, deg, queue)
         ELSE LET deg1 == [deg EXCEPT ![d] = deg[d] - 1] IN
              IF deg1[d] = DegOffset
              THEN ReleaseDependents(g, dependents, i + 1, deg1,
                                     SortStrings(Append(queue, d)))
              ELSE ReleaseDependents(g, dependents, i + 1, deg1, queue)

\* The main loop of Kahn's algorithm: the result list when the queue empties.
RECURSIVE KahnLoop(_, _, _, _)
KahnLoop(g, deg, queue, result) ==
    IF queue = <<>> THEN result
    ELSE LET node == Head(queue)
             r == ReleaseDependents(g, MapGetSeq(g.rev, node), 1, deg, Tail(queue))
         IN KahnLoop(g, r.deg, r.queue, Append(result, node))

\* The ids named by TopologicalSort's error, whose text is the fixed string
\* "cycle detected: topological sort incomplete": none.
SortErrorIds == <<>>

\* TopologicalSort without the sort.Strings of the initial queue.
TopologicalSort_NoSort(g, order) ==
    LET inDeg == InDegree(g)
        deg0 == [id \in DOMAIN g.nodes |-> inDeg[id] + DegOffset]
        result == KahnLoop(g, deg0, InitialQueue(inDeg, order, 1), <<>>)
    IN IF Len(result) # Cardinality(DOMAIN g.nodes)
       THEN [err |-> TRUE, order |-> <<>>, cycle |-> SortErrorIds]
       ELSE [err |-> FALSE, order |-> result, cycle |-> <<>>]

\* TopologicalSort with the range loop over inDegree visiting in `order`.
TopologicalSort(g, order) ==
    LET inDeg == InDegree(g)
        deg0 == [id \in DOMAIN g.nodes |-> inDeg[id] + DegOffset]
        queue == SortStrings(InitialQueue(inDeg, order, 1))
        result == KahnLoop(g, deg0, queue, <<>>)
    IN IF Len(result) # Cardinality(DOMAIN g.nodes)
       THEN [err |-> TRUE, order |-> <<>>, cycle |-> SortErrorIds]
       ELSE [err |-> FALSE, order |-> result, cycle |-> <<>>]

\* ------------------------------------------------------ derived queries
\* walk(node) of TransitiveDeps, from entry i of g.edges[node] on; st holds
\* the visited map (as the set of its true keys) and the result slice.
RECURSIVE walkEdges(_, _, _, _)
walkEdges(g, st, node, i) ==
    IF i > Len(MapGetSeq(g.edges, node)) THEN st
    ELSE LET dep == MapGetSeq(g.edges, node)[i] IN
         IF dep \in st.visited THEN walkEdges(g, st, node, i + 1)
         ELSE walkEdges(g,
                        walkEdges(g, [visited |-> st.visited \cup {dep},
                                      result  |-> Append(st.result, dep)], dep, 1),
                        node, i + 1)

TransitiveDeps(g, id) == walkEdges(g, [visited |-> {}, result |-> <<>>], id, 1).result

\* RootsLoop taking a node whose dependencies are all dangling as a root.
RootsLoop_Resolvable(g, order, i) ==
    SelectSeq(order, LAMBDA id : CountResolvable(g, g.edges[id], 1) = 0)

\* The loop of Roots over g.nodes, visiting in `order`, from entry i on.
RECURSIVE RootsLoop(_, _, _)
RootsLoop(g, order, i) ==
    IF i > Len(order) THEN <<>>
    ELSE (IF Len(MapGetSeq(g.edges, order[i])) = 0 THEN <<order[i]>> ELSE <<>>)
         \o RootsLoop(g, order, i + 1)

Roots(g, order) == SortStrings(RootsLoop(g, order, 1))

\* The loop of Leaves over g.nodes, visiting in `order`, from entry i on.
RECURSIVE LeavesLoop(_, _, _)
LeavesLoop(g, order, i) ==
    IF i > Len(order) THEN <<>>
    ELSE (IF Len(MapGetSeq(g.rev, order[i])) = 0 THEN <<order[i]>> ELSE <<>>)
         \o LeavesLoop(g, order, i + 1)

Leaves(g, order) == SortStrings(LeavesLoop(g, order, 1))

\* Dependents: the reverse-edge list of id itself (g.rev[id]), not a copy.
Dependents(g, id) == MapGetSeq(g.rev, id)

\* ----------------------------------------------------------- RenderASCII
\* renderNode: st holds the graph (the slices of g.rev are shared with the
\* caller), the visited map and the lines written, one [id, seen] per line.
\* children is the slice g.Dependents(id) returns, g.rev[id] itself, and
\* sort.Strings(children) sorts it in place.
RECURSIVE renderNode(_, _)
RECURSIVE renderChildren(_, _, _)

renderNode(st, id) ==
    IF id \notin DOMAIN st.g.nodes THEN st
    ELSE IF id \in st.visited
         THEN [st EXCEPT !.lines = Append(@, [id |-> id, seen |-> TRUE])]
    ELSE LET g1 == IF id \in DOMAIN st.g.rev
                   THEN [st.g EXCEPT !.rev[id] = SortStrings(@)]
                   ELSE st.g
         IN renderChildren([g       |-> g1,
                            visited |-> st.visited \cup {id},
                            lines   |-> Append(st.lines, [id |-> id, seen |-> FALSE])],
                           Dependents(g1, id), 1)

\* The loop `for i, child := range children` of renderNode, from entry i on.
renderChildren(st, children, i) ==
    IF i > Len(children) THEN st
    ELSE renderChildren(renderNode(st, children[i]), children, i + 1)

\* The loop of RenderASCII over the roots, from entry i on.
RECURSIVE RenderRoots(_, _, _)
RenderRoots(st, roots, i) ==
    IF i > Len(roots) THEN st
    ELSE RenderRoots(renderNode(st, roots[i]), roots, i + 1)

\* RenderASCII with g.Roots() ranging over the nodes in `order`: the kind
\* of text returned, the lines of the tree and the graph the call leaves.
RenderASCII(g, order) ==
    IF DOMAIN g.nodes = {}
    THEN [text |-> "No tasks.", lines |-> <<>>, graph |-> g]
    ELSE IF Len(Roots(g, order)) = 0
    THEN [text |-> "No root tasks", lines |-> <<>>, graph |-> g]
    ELSE LET st == RenderRoots([g |-> g, visited |-> {}, lines |-> <<>>],
                               Roots(g, order), 1)
         IN [text |-> "tree", lines |-> st.lines, graph |-> st.g]

\* ---------------------------------------------- inputs of the graph engine
\* Dependency lists with at most n entries.
DepLists(n) == UNION {[1..k -> Ids] : k \in 0..n}

\* The task lists given to the graph engine: ids[i] is the id of record i,
\* lens[i] the length of its dependency list, and flat the dependency lists
\* one after the other.  Ids may repeat, and a dependency may name an id
\* that is not in the list.
RECURSIVE SumTo(_, _)
SumTo(lens, i) == IF i = 0 THEN 0 ELSE lens[i] + SumTo(lens, i - 1)

MakeTasks(ids, lens, flat) ==
    [i \in 1..Len(ids) |->
        [id |-> ids[i],
         deps |-> [j \in 1..lens[i] |-> flat[SumTo(lens, i - 1) + j]]]]

\* ------------------------------------------------------------ model.Task
StatusOpen == "open"
StatusInProgress == "in_progress"
StatusClosed == "closed"
validStatuses == {StatusOpen, StatusInProgress, StatusClosed}

TypeTask == "task"
TypeEpic == "epic"

\* ValidateStatus: "ok" or the error.
ValidateStatus(s) == IF s \in validStatuses THEN "ok" ELSE "invalid status"

\* The loop of Validate over DependsOn, from entry i on.
RECURSIVE ValidateDepsLoop(_, _, _)
ValidateDepsLoop(t, i, seen) ==
    IF i > Len(t.deps) THEN "ok"
    ELSE IF t.deps[i] = t.id THEN "task cannot depend on itself"
    ELSE IF t.deps[i] \in seen THEN "duplicate dependency"
    ELSE ValidateDepsLoop(t, i + 1, seen \cup {t.deps[i]})

\* Task.Validate: "ok" or the first error.  Title and priority are not part
\* of the modelled record; their checks do not read the dependency fields.
Validate(t) ==
    IF t.id = NoId THEN "task id is required"
    ELSE IF t.project = "" THEN "task project is required"
    ELSE IF t.type # TypeTask /\ t.type # TypeEpic THEN "invalid task type"
    ELSE IF ValidateStatus(t.status) # "ok" THEN ValidateStatus(t.status)
    ELSE IF t.type = TypeEpic /\ Len(t.deps) > 0
         THEN "epic-type tasks cannot have dependencies"
    ELSE ValidateDepsLoop(t, 1, {})

RECURSIVE IsBlockedLoop(_, _, _)

\* IsBlockedLoop taking a dependency that is not in the map as satisfied.
IsBlockedLoop_SkipMissing(deps, i, allTasks) ==
    IF i > Len(deps) THEN FALSE
    ELSE IF deps[i] \notin DOMAIN allTasks THEN IsBlockedLoop(deps, i + 1, allTasks)
    ELSE IF allTasks[deps[i]].status # StatusClosed THEN TRUE
    ELSE IsBlockedLoop(deps, i + 1, allTasks)

\* Task.IsBlocked, the loop from entry i on; allTasks is a map id -> task.
IsBlockedLoop(deps, i, allTasks) ==
    IF i > Len(deps) THEN FALSE
    ELSE IF deps[i] \notin DOMAIN allTasks THEN TRUE
    ELSE IF allTasks[deps[i]].status # StatusClosed THEN TRUE
    ELSE IsBlockedLoop(deps, i + 1, allTasks)

IsBlocked(t, allTasks) == IsBlockedLoop(t.deps, 1, allTasks)

\* ----------------------------------------------------------- the store
\* files: the task files of the store, a map id -> task record
\* [id, type, project, status, deps].  Every file lies in the directory of
\* project ProjP, whatever its frontmatter's project field says; ProjX is a
\* project key that has no directory.
ProjP == "P"
ProjX == "X"
Projects == {ProjP, ProjX}

\* The ids in ascending order: filepath.Glob returns the file names sorted,
\* and a task's file is named by its id.
SortedIds(S) == SortStrings(CHOOSE p \in RangeOrders(S) : TRUE)

RECURSIVE FilterSeq(_, _, _)

\* FilterSeq without the type filter.
FilterSeq_NoType(s, i, type) == s

\* The filter loop of ListTasks, from record i on ("" filters nothing).
FilterSeq(s, i, type) ==
    IF i > Len(s) THEN <<>>
    ELSE (IF type # "" /\ s[i].type # type THEN <<>> ELSE <<s[i]>>)
         \o FilterSeq(s, i + 1, type)

\* ListTasks(TaskFilter{ProjectID: projectID, Type: type}).
ListTasks(fs, projectID, type) ==
    IF projectID # ProjP THEN <<>>
    ELSE LET ids == SortedIds(DOMAIN fs)
         IN FilterSeq([i \in 1..Len(ids) |-> fs[ids[i]]], 1, type)

\* AllTaskMap(projectID): the listed tasks keyed by id.
AllTaskMap(fs, projectID) ==
    LET l == ListTasks(fs, projectID, "")
    IN [id \in {l[i].id : i \in 1..Len(l)} |-> fs[id]]

\* The first loop of validateDeps, from entry i on.
RECURSIVE CheckDepsLoop(_, _, _, _)
CheckDepsLoop(fs, deps, i, projectID) ==
    IF i > Len(deps) THEN "ok"
    ELSE IF deps[i] \notin DOMAIN fs THEN "dependency not found"
    ELSE IF fs[deps[i]].project # projectID THEN "dependency is in another project"
    ELSE IF fs[deps[i]].type = TypeEpic THEN "cannot depend on epic-type task"
    ELSE CheckDepsLoop(fs, deps, i + 1, projectID)

\* The second loop of validateDeps: the listed tasks with t in the place of
\* the record that has its id, or appended when there is none.
RECURSIVE ReplaceLoop(_, _, _)
ReplaceLoop(existing, i, t) ==
    IF i > Len(existing) THEN <<>>
    ELSE <<IF existing[i].id = t.id THEN t ELSE existing[i]>>
         \o ReplaceLoop(existing, i + 1, t)

WithTask(existing, t) ==
    IF \E i \in 1..Len(existing) : existing[i].id = t.id
    THEN ReplaceLoop(existing, 1, t)
    ELSE Append(ReplaceLoop(existing, 1, t), t)

\* The map iteration orders ValidateAcyclic may take on validateDeps' graph.
ValidateOrders(fs, t, projectID) ==
    RangeOrders(DOMAIN BuildFromTasks(WithTask(ListTasks(fs, projectID, TypeTask), t)).nodes)

\* validateDeps: "ok" or the error.
validateDeps(fs, t, projectID, order) ==
    IF CheckDepsLoop(fs, t.deps, 1, projectID) # "ok"
    THEN CheckDepsLoop(fs, t.deps, 1, projectID)
    ELSE IF ValidateAcyclic(BuildFromTasks(WithTask(ListTasks(fs, projectID, TypeTask), t)),
                            order).err
         THEN "cycle detected"
         ELSE "ok"

\* Candidates without the blocked check: every open task is a candidate.
Candidates_OpenOnly(l, i, allTasks) ==
    SelectSeq(l, LAMBDA t : t.status = StatusOpen)

\* The candidates loop of ReadyTasks, from record i on.
RECURSIVE Candidates(_, _, _)
Candidates(l, i, allTasks) ==
    IF i > Len(l) THEN <<>>
    ELSE (IF l[i].status = StatusOpen /\ ~IsBlocked(l[i], allTasks)
          THEN <<l[i]>> ELSE <<>>)
         \o Candidates(l, i + 1, allTasks)

\* PickCandidates walking the ids in ascending order instead of `order`.
PickCandidates_ById(order, i, candidateSet, allTasks) ==
    LET ids == SortStrings(order)
    IN [k \in 1..Cardinality(candidateSet) |->
           allTasks[(SelectSeq(ids, LAMBDA x : x \in candidateSet))[k]]]

\* The result loop of ReadyTasks, from entry i of the order on.
RECURSIVE PickCandidates(_, _, _, _)
PickCandidates(order, i, candidateSet, allTasks) ==
    IF i > Len(order) THEN <<>>
    ELSE (IF order[i] \in candidateSet THEN <<allTasks[order[i]]>> ELSE <<>>)
         \o PickCandidates(order, i + 1, candidateSet, allTasks)

\* ReadyTasks giving up (no tasks) when the topological sort fails.
ReadyTasks_NoFallback(fs, projectID, order) ==
    LET l == ListTasks(fs, projectID, TypeTask)
        allTasks == AllTaskMap(fs, projectID)
        candidates == Candidates(l, 1, allTasks)
        candidateSet == {candidates[i].id : i \in 1..Len(candidates)}
        sorted == TopologicalSort(BuildFromTasks(l), order)
    IN IF Len(candidates) = 0 \/ sorted.err THEN <<>>
       ELSE PickCandidates(sorted.order, 1, candidateSet, allTasks)

\* ReadyTasks(projectID): the returned tasks (it returns no error).
ReadyTasks(fs, projectID, order) ==
    LET l == ListTasks(fs, projectID, TypeTask)
        allTasks == AllTaskMap(fs, projectID)
        candidates == Candidates(l, 1, allTasks)
        candidateSet == {candidates[i].id : i \in 1..Len(candidates)}
        sorted == TopologicalSort(BuildFromTasks(l), order)
    IN IF Len(candidates) = 0 THEN <<>>
       ELSE IF sorted.err THEN candidates
       ELSE PickCandidates(sorted.order, 1, candidateSet, allTasks)

\* tasks:  the task list given to the graph engine (to IsBlocked: the one
\*         task asked about)
\* files:  what is persisted: the task files of the store (for IsBlocked:
\*         the task map; for the registry: the stores' projects and the
\*         project cache of the configuration)
\* issued: the ids id.NewTaskID has returned so far
\* out:    the outcome of the call that has just run, NoCall between calls;
\*         where calls run step by step or side by side, the locals and
\*         the position of the calls in flight
VARIABLES tasks, files, issued, out

vars == <<tasks, files, issued, out>>

NoCall == [op |-> "none"]

\* ------------------------------------------------ the graph engine's calls
InitDag ==
    /\ \E n \in 0..MaxTasks, e \in 0..MaxEdges :
         \E ids \in [1..n -> Ids], lens \in [1..n -> 0..e], flat \in [1..e -> Ids] :
            /\ SumTo(lens, n) = e
            /\ tasks = MakeTasks(ids, lens, flat)
    /\ files = <<>>
    /\ issued = {}
    /\ out = NoCall

\* g.ValidateAcyclic() on the graph built from the task list.
CallValidateAcyclic ==
    /\ out = NoCall
    /\ \E order \in RangeOrders(DOMAIN BuildFromTasks(tasks).nodes) :
        LET r == ValidateAcyclic(BuildFromTasks(tasks), order) IN
        /\ out' = [op |-> "ValidateAcyclic", err |-> r.err, cycle |-> r.cycle,
                   color |-> r.color, entered |-> r.entered]
        /\ UNCHANGED <<tasks, files, issued>>

\* g.TopologicalSort() on the graph built from the task list.
CallTopologicalSort ==
    /\ out = NoCall
    /\ \E order \in RangeOrders(DOMAIN BuildFromTasks(tasks).nodes) :
        LET r == TopologicalSort(BuildFromTasks(tasks), order) IN
        /\ out' = [op |-> "TopologicalSort", err |-> r.err, order |-> r.order,
                   cycle |-> r.cycle]
        /\ UNCHANGED <<tasks, files, issued>>

\* g.TransitiveDeps(id) for any id, a node or not.
CallTransitiveDeps ==
    /\ out = NoCall
    /\ \E id \in Ids :
        /\ out' = [op |-> "TransitiveDeps", id |-> id,
                   result |-> TransitiveDeps(BuildFromTasks(tasks), id)]
        /\ UNCHANGED <<tasks, files, issued>>

\* g.Roots().
CallRoots ==
    /\ out = NoCall
    /\ \E order \in RangeOrders(DOMAIN BuildFromTasks(tasks).nodes) :
        /\ out' = [op |-> "Roots", result |-> Roots(BuildFromTasks(tasks), order)]
        /\ UNCHANGED <<tasks, files, issued>>

\* g.Leaves().
CallLeaves ==
    /\ out = NoCall
    /\ \E order \in RangeOrders(DOMAIN BuildFromTasks(tasks).nodes) :
        /\ out' = [op |-> "Leaves", result |-> Leaves(BuildFromTasks(tasks), order)]
        /\ UNCHANGED <<tasks, files, issued>>

\* g.Dependents(id) for any id, a node or not.
CallDependents ==
    /\ out = NoCall
    /\ \E id \in Ids :
        /\ out' = [op |-> "Dependents", id |-> id,
                   result |-> Dependents(BuildFromTasks(tasks), id)]
        /\ UNCHANGED <<tasks, files, issued>>

\* dag.RenderASCII(g); out.graph is the graph as the call leaves it.
CallRenderASCII ==
    /\ out = NoCall
    /\ \E order \in RangeOrders(DOMAIN BuildFromTasks(tasks).nodes) :
        LET r == RenderASCII(BuildFromTasks(tasks), order) IN
        /\ out' = [op |-> "RenderASCII", text |-> r.text, lines |-> r.lines,
                   graph |-> r.graph]
        /\ UNCHANGED <<tasks, files, issued>>

NextDag ==
    \/ CallRenderASCII
    \/ CallValidateAcyclic
    \/ CallTopologicalSort
    \/ CallTransitiveDeps
    \/ CallRoots
    \/ CallLeaves
    \/ CallDependents

SpecDag == InitDag /\ [][NextDag]_vars

\* ------------------------------------------ the graph engine, step by step
\* The loops and recursions of ValidateAcyclic, buildCyclePath,
\* TopologicalSort and TransitiveDeps one iteration at a time.  `out` holds
\* the locals of the running call and pc its position; the recursion of dfs
\* and of walk is a stack of frames [node, i], i being the next entry of
\* g.edges[node] the frame's loop reads.
\* StepBound caps the slices a call grows (stack, path, result) above any
\* length a terminating run reaches; a run that hits it stops for good
\* without reaching "done".
StepBound == 2 * (MaxTasks + MaxEdges) + 2

\* parent[cur] on the Go map: "" for a key that was never set.
ParentOf(parent, cur) == IF cur \in DOMAIN parent THEN parent[cur] ELSE NoId

\* One pass of `for id := range g.nodes` in ValidateAcyclic.
RangeStep(g, s) ==
    IF s.i > Len(s.order) THEN [s EXCEPT !.pc = "done"]
    ELSE IF s.color[s.order[s.i]] = white
         THEN [s EXCEPT !.i = @ + 1,
                        !.color[s.order[s.i]] = gray,
                        !.stack = <<[node |-> s.order[s.i], i |-> 1]>>,
                        !.pc = "dfs"]
    ELSE [s EXCEPT !.i = @ + 1]

\* One pass of the loop of dfs(node) in the innermost call, or its return.
DfsStep(g, s) ==
    LET top  == s.stack[Len(s.stack)]
        rest == SubSeq(s.stack, 1, Len(s.stack) - 1)
        adv  == [s EXCEPT !.stack[Len(s.stack)].i = @ + 1]
    IN IF top.i > Len(g.edges[top.node])
       THEN [s EXCEPT !.color[top.node] = black,
                      !.stack = rest,
                      !.pc = IF rest = <<>> THEN "range" ELSE "dfs"]
       ELSE LET dep == g.edges[top.node][top.i] IN
            IF dep \notin DOMAIN g.nodes THEN adv
            ELSE IF s.color[dep] = gray
                 THEN [s EXCEPT !.pc = "path", !.path = <<dep>>,
                                !.cur = top.node, !.to = dep]
            ELSE IF s.color[dep] = white
                 THEN [adv EXCEPT !.parent[dep] = top.node,
                                  !.color[dep] = gray,
                                  !.stack = Append(adv.stack, [node |-> dep, i |-> 1])]
            ELSE adv

\* One pass of `for cur != to` in buildCyclePath, or the code after it.
PathStep(s) ==
    IF s.cur = s.to
    THEN [s EXCEPT !.path = Reverse(Append(s.path, s.to)), !.err = TRUE, !.pc = "done"]
    ELSE [s EXCEPT !.path = Append(@, s.cur), !.cur = ParentOf(s.parent, s.cur)]

\* One pass of `for len(queue) > 0` in TopologicalSort, or the code after it.
KahnStep(g, s) ==
    IF s.queue = <<>>
    THEN [s EXCEPT !.pc = "done", !.err = (Len(s.result) # Cardinality(DOMAIN g.nodes))]
    ELSE LET r == ReleaseDependents(g, MapGetSeq(g.rev, Head(s.queue)), 1,
                                    s.deg, Tail(s.queue))
         IN [s EXCEPT !.deg = r.deg, !.queue = r.queue,
                      !.result = Append(@, Head(s.queue))]

\* WalkStep without the visited test: every dependency is walked again.
WalkStep_NoVisited(g, s) ==
    LET top  == s.stack[Len(s.stack)]
        rest == SubSeq(s.stack, 1, Len(s.stack) - 1)
        adv  == [s EXCEPT !.stack[Len(s.stack)].i = @ + 1]
    IN IF top.i > Len(MapGetSeq(g.edges, top.node))
       THEN [s EXCEPT !.stack = rest, !.pc = IF rest = <<>> THEN "done" ELSE "walk"]
       ELSE LET dep == MapGetSeq(g.edges, top.node)[top.i] IN
            [adv EXCEPT !.visited = @ \cup {dep},
                        !.result = Append(@, dep),
                        !.stack = Append(adv.stack, [node |-> dep, i |-> 1])]

\* One pass of the loop of walk(node) in the innermost call, or its return.
WalkStep(g, s) ==
    LET top  == s.stack[Len(s.stack)]
        rest == SubSeq(s.stack, 1, Len(s.stack) - 1)
        adv  == [s EXCEPT !.stack[Len(s.stack)].i = @ + 1]
    IN IF top.i > Len(MapGetSeq(g.edges, top.node))
       THEN [s EXCEPT !.stack = rest, !.pc = IF rest = <<>> THEN "done" ELSE "walk"]
       ELSE LET dep == MapGetSeq(g.edges, top.node)[top.i] IN
            IF dep \in s.visited THEN adv
            ELSE [adv EXCEPT !.visited = @ \cup {dep},
                             !.result = Append(@, dep),
                             !.stack = Append(adv.stack, [node |-> dep, i |-> 1])]

\* g.ValidateAcyclic() is entered.
StartValidateAcyclic ==
    /\ out = NoCall
    /\ \E order \in RangeOrders(DOMAIN BuildFromTasks(tasks).nodes) :
        out' = [op |-> "ValidateAcyclic", pc |-> "range", order |-> order, i |-> 1,
                color |-> DfsInit.color, parent |-> DfsInit.parent, stack |-> <<>>,
                path |-> <<>>, cur |-> NoId, to |-> NoId, err |-> FALSE]
    /\ UNCHANGED <<tasks, files, issued>>

StepRange ==
    /\ out.op = "ValidateAcyclic" /\ out.pc = "range"
    /\ out' = RangeStep(BuildFromTasks(tasks), out)
    /\ UNCHANGED <<tasks, files, issued>>

StepDfs ==
    /\ out.op = "ValidateAcyclic" /\ out.pc = "dfs"
    /\ Len(out.stack) <= StepBound
    /\ out' = DfsStep(BuildFromTasks(tasks), out)
    /\ UNCHANGED <<tasks, files, issued>>

StepPath ==
    /\ out.op = "ValidateAcyclic" /\ out.pc = "path"
    /\ Len(out.path) <= StepBound
    /\ out' = PathStep(out)
    /\ UNCHANGED <<tasks, files, issued>>

\* g.TopologicalSort() is entered: the in-degrees and the sorted queue.
StartTopologicalSort ==
    /\ out = NoCall
    /\ \E order \in RangeOrders(DOMAIN BuildFromTasks(tasks).nodes) :
        LET g == BuildFromTasks(tasks) IN
        out' = [op |-> "TopologicalSort", pc |-> "kahn",
                deg |-> [id \in DOMAIN g.nodes |-> InDegree(g)[id] + DegOffset],
                queue |-> SortStrings(InitialQueue(InDegree(g), order, 1)),
                result |-> <<>>, err |-> FALSE]
    /\ UNCHANGED <<tasks, files, issued>>

StepKahn ==
    /\ out.op = "TopologicalSort" /\ out.pc = "kahn"
    /\ Len(out.result) <= StepBound
    /\ out' = KahnStep(BuildFromTasks(tasks), out)
    /\ UNCHANGED <<tasks, files, issued>>

\* g.TransitiveDeps(id) is entered, for any id.
StartTransitiveDeps ==
    /\ out = NoCall
    /\ \E id \in Ids :
        out' = [op |-> "TransitiveDeps", pc |-> "walk", id |-> id, visited |-> {},
                result |-> <<>>, stack |-> <<[node |-> id, i |-> 1]>>]
    /\ UNCHANGED <<tasks, files, issued>>

StepWalk ==
    /\ out.op = "TransitiveDeps" /\ out.pc = "walk"
    /\ Len(out.stack) <= StepBound
    /\ out' = WalkStep(BuildFromTasks(tasks), out)
    /\ UNCHANGED <<tasks, files, issued>>

NextSteps ==
    \/ StartValidateAcyclic
    \/ StepRange
    \/ StepDfs
    \/ StepPath
    \/ StartTopologicalSort
    \/ StepKahn
    \/ StartTransitiveDeps
    \/ StepWalk

\* The engine is sequential code with no blocking operation: a call that
\* has a next statement executes it.
SpecSteps == InitDag /\ [][NextSteps]_vars /\ WF_vars(NextSteps)

\* ---------------------------------------------------- the IsBlocked call
\* t.IsBlocked(allTasks) for any task t (in tasks[1]) and any task map
\* (in files): every id is absent from the map or has one of the statuses.
InitBlocked ==
    /\ \E present \in SUBSET Ids, st \in [Ids -> validStatuses],
          tid \in Ids, deps \in DepLists(MaxEdges) :
         /\ files = [i \in present |-> [id |-> i, type |-> TypeTask, project |-> ProjP,
                                         status |-> st[i], deps |-> <<>>]]
         /\ tasks = <<[id |-> tid, type |-> TypeTask, project |-> ProjP,
                       status |-> StatusOpen, deps |-> deps]>>
    /\ issued = {}
    /\ out = NoCall

CallIsBlocked ==
    /\ out = NoCall
    /\ out' = [op |-> "IsBlocked", blocked |-> IsBlocked(tasks[1], files)]
    /\ UNCHANGED <<tasks, files, issued>>

NextBlocked == CallIsBlocked

SpecBlocked == InitBlocked /\ [][NextBlocked]_vars

\* ------------------------------------------------------ the store's calls
\* One call runs at a time: a call leaves its outcome in out, and the next
\* call starts once the outcome has been returned to the caller.
Init == tasks = <<>> /\ files = <<>> /\ issued = {} /\ out = NoCall

Fail(op, e) == out' = [op |-> op, err |-> e] /\ UNCHANGED <<tasks, files, issued>>

CreateFail(e) == out' = [op |-> "CreateTask", err |-> e] /\ UNCHANGED <<tasks, files>>

Write(op, t) ==
    /\ files' = MapPut(files, t.id, t)
    /\ out' = [op |-> op, err |-> "", id |-> t.id]
    /\ UNCHANGED <<tasks, issued>>

\* CreateTask(title, projectID, opts) for a project that does not exist.
CreateTaskNoProject ==
    /\ out = NoCall
    /\ \E projectID \in Projects \ {ProjP} : Fail("CreateTask", "project not found")

\* CreateTask(title, projectID, opts).  id.NewTaskID draws a random id of 5
\* characters; the model takes any id that was not drawn before (two draws
\* are taken never to collide).  The id counts as drawn even if the call
\* then fails.
CreateTask ==
    /\ out = NoCall
    /\ \E type \in {TypeTask, TypeEpic}, deps \in DepLists(MaxDeps), tid \in Ids \ issued :
        LET t == [id |-> tid, type |-> type, project |-> ProjP,
                  status |-> StatusOpen, deps |-> deps]
        IN /\ issued' = issued \cup {tid}
           /\ IF Validate(t) # "ok"
              THEN CreateFail(Validate(t))
              ELSE IF CheckDepsLoop(files, t.deps, 1, ProjP) # "ok"
              THEN CreateFail(CheckDepsLoop(files, t.deps, 1, ProjP))
              ELSE \E order \in ValidateOrders(files, t, ProjP) :
                   IF validateDeps(files, t, ProjP, order) # "ok"
                   THEN CreateFail(validateDeps(files, t, ProjP, order))
                   ELSE /\ files' = MapPut(files, t.id, t)
                        /\ out' = [op |-> "CreateTask", err |-> "", id |-> t.id]
                        /\ UNCHANGED tasks

\* UpdateTask(taskID, upd) with upd.Status set.
UpdateTaskStatus ==
    /\ out = NoCall
    /\ \E taskID \in Ids, status \in validStatuses :
        IF taskID \notin DOMAIN files THEN Fail("UpdateTask", "not found")
        ELSE LET t == [files[taskID] EXCEPT !.status = status]
             IN IF Validate(t) # "ok" THEN Fail("UpdateTask", Validate(t))
                ELSE Write("UpdateTask", t)

\* UpdateTask with upd.DependsOn set that writes the task before it runs
\* validateDeps, and so leaves the file changed when validateDeps refuses.
UpdateTaskDependsOn_WriteFirst ==
    /\ out = NoCall
    /\ \E taskID \in Ids, deps \in DepLists(MaxDeps) :
        IF taskID \notin DOMAIN files THEN Fail("UpdateTask", "not found")
        ELSE LET t == [files[taskID] EXCEPT !.deps = deps]
             IN IF Validate(t) # "ok" THEN Fail("UpdateTask", Validate(t))
                ELSE /\ files' = MapPut(files, t.id, t)
                     /\ UNCHANGED <<tasks, issued>>
                     /\ IF CheckDepsLoop(files, t.deps, 1, t.project) # "ok"
                        THEN out' = [op |-> "UpdateTask",
                                     err |-> CheckDepsLoop(files, t.deps, 1, t.project)]
                        ELSE \E order \in ValidateOrders(files, t, t.project) :
                             IF validateDeps(files, t, t.project, order) # "ok"
                             THEN out' = [op |-> "UpdateTask",
                                          err |-> validateDeps(files, t, t.project, order)]
                             ELSE out' = [op |-> "UpdateTask", err |-> "", id |-> t.id]

\* UpdateTask(taskID, upd) with upd.DependsOn set.
UpdateTaskDependsOn ==
    /\ out = NoCall
    /\ \E taskID \in Ids, deps \in DepLists(MaxDeps) :
        IF taskID \notin DOMAIN files THEN Fail("UpdateTask", "not found")
        ELSE LET t == [files[taskID] EXCEPT !.deps = deps]
             IN IF Validate(t) # "ok" THEN Fail("UpdateTask", Validate(t))
                ELSE IF CheckDepsLoop(files, t.deps, 1, t.project) # "ok"
                     THEN Fail("UpdateTask", CheckDepsLoop(files, t.deps, 1, t.project))
                ELSE \E order \in ValidateOrders(files, t, t.project) :
                     IF validateDeps(files, t, t.project, order) # "ok"
                     THEN Fail("UpdateTask", validateDeps(files, t, t.project, order))
                     ELSE Write("UpdateTask", t)

\* DeleteTask(taskID).
DeleteTask ==
    /\ out = NoCall
    /\ \E taskID \in Ids :
        IF taskID \notin DOMAIN files THEN Fail("DeleteTask", "not found")
        ELSE /\ files' = [i \in (DOMAIN files) \ {taskID} |-> files[i]]
             /\ out' = [op |-> "DeleteTask", err |-> "", id |-> taskID]
             /\ UNCHANGED <<tasks, issued>>

\* CheckinTask returns an error: the local file stays where it is.
CheckinFail(e) ==
    /\ out' = [op |-> "CheckinTask", err |-> e, local |-> TRUE]
    /\ UNCHANGED <<tasks, files, issued>>

\* CheckinWrite removing the local file before the store path is resolved.
CheckinWrite_RemoveFirst(c) ==
    IF c.t.id \notin DOMAIN files
    THEN /\ out' = [op |-> "CheckinTask", err |-> "not found", local |-> FALSE]
         /\ UNCHANGED <<tasks, files, issued>>
    ELSE /\ files' = MapPut(files, c.t.id, c.t)
         /\ out' = [op |-> "CheckinTask", err |-> "", id |-> c.t.id,
                    file |-> c.file, local |-> FALSE]
         /\ UNCHANGED <<tasks, issued>>

\* The tail of CheckinTask for the local file c.file read as c.t: resolve
\* the store path of t.ID, write there, remove the local file.
CheckinWrite(c) ==
    IF c.t.id \notin DOMAIN files THEN CheckinFail("not found")
    ELSE /\ files' = MapPut(files, c.t.id, c.t)
         /\ out' = [op |-> "CheckinTask", err |-> "", id |-> c.t.id,
                    file |-> c.file, local |-> FALSE]
         /\ UNCHANGED <<tasks, issued>>

\* The frontmatter a local file may hold.
CheckinFiles == [id : Ids, type : {TypeTask, TypeEpic}, project : Projects,
                 status : validStatuses, deps : DepLists(MaxDeps)]

\* LocalStore.CheckinTask clears an epic's stored status before validating.
CheckinRead(f) == IF f.type = TypeEpic THEN [f EXCEPT !.status = ""] ELSE f

\* The task a local file is read as, by Store.CheckinTask (as it stands)
\* and by LocalStore.CheckinTask.
CheckinVariants(f) == {f, CheckinRead(f)}

\* The readings [file, t] that t.Validate() accepts, and the errors it gives
\* for the others.
CheckinValid ==
    UNION {{[file |-> f, t |-> t] : t \in {x \in CheckinVariants(f) : Validate(x) = "ok"}}
           : f \in CheckinFiles}

CheckinInvalid ==
    UNION {{Validate(t) : t \in CheckinVariants(f)} : f \in CheckinFiles} \ {"ok"}

\* CheckinTask(localPath) on a local file that fails t.Validate().
CheckinTaskInvalid ==
    /\ out = NoCall
    /\ \E e \in CheckinInvalid : CheckinFail(e)

\* CheckinTask(localPath) on a local file that passes t.Validate().
CheckinTask ==
    /\ out = NoCall
    /\ \E c \in CheckinValid :
           IF Len(c.t.deps) = 0
           THEN CheckinWrite(c)
           ELSE IF CheckDepsLoop(files, c.t.deps, 1, c.t.project) # "ok"
                THEN CheckinFail(CheckDepsLoop(files, c.t.deps, 1, c.t.project))
           ELSE \E order \in ValidateOrders(files, c.t, c.t.project) :
                IF validateDeps(files, c.t, c.t.project, order) # "ok"
                THEN CheckinFail(validateDeps(files, c.t, c.t.project, order))
                ELSE CheckinWrite(c)

\* ReadyTasks(projectID).
CallReadyTasks ==
    /\ out = NoCall
    /\ \E projectID \in Projects :
         \E order \in RangeOrders(DOMAIN BuildFromTasks(ListTasks(files, projectID, TypeTask)).nodes) :
            /\ out' = [op |-> "ReadyTasks", err |-> "", project |-> projectID,
                       ready |-> ReadyTasks(files, projectID, order)]
            /\ UNCHANGED <<tasks, files, issued>>

\* The call returns to its caller.
Return == out # NoCall /\ out' = NoCall /\ UNCHANGED <<tasks, files, issued>>

Next ==
    \/ CreateTaskNoProject
    \/ CreateTask
    \/ UpdateTaskStatus
    \/ UpdateTaskDependsOn
    \/ DeleteTask
    \/ CheckinTaskInvalid
    \/ CheckinTask
    \/ CallReadyTasks
    \/ Return

Spec == Init /\ [][Next]_vars

\* ------------------------------------------- two UpdateTask calls at once
\* UpdateTask takes no lock (neither a mutex nor a file lock), so two
\* calls run as three steps each that other calls may come between:
\* reading the task file, validateDeps (which reads the store again), and
\* WriteEntity.  In this specification `out` holds the two calls in flight:
\* calls[p] is [taskID, deps, pc, t, err] with t the record read and edited.
Callers == {1, 2}

\* Stores that CreateTask calls can leave: every dependency names a stored
\* task of the project, here always one of smaller id, so that the store
\* the two calls start from is acyclic.
SoundStores ==
    {fs \in UNION {[D -> [id : Ids, type : {TypeTask}, project : {ProjP},
                          status : {StatusOpen}, deps : DepLists(MaxDeps)]]
                   : D \in SUBSET Ids} :
        \A i \in DOMAIN fs :
            /\ fs[i].id = i
            /\ \A k \in 1..Len(fs[i].deps) :
                   fs[i].deps[k] \in DOMAIN fs /\ fs[i].deps[k] < i}

InitUpdate ==
    /\ tasks = <<>>
    /\ files \in SoundStores
    /\ issued = DOMAIN files
    /\ \E a, b \in Ids, da, db \in DepLists(MaxDeps) :
        /\ a # b
        /\ out = [op |-> "UpdateTask",
                  calls |-> [p \in Callers |->
                               [taskID |-> IF p = 1 THEN a ELSE b,
                                deps   |-> IF p = 1 THEN da ELSE db,
                                pc     |-> "read",
                                t      |-> <<>>,
                                err    |-> ""]]]

UpdateStep(p, pc, t, err) ==
    /\ out' = [out EXCEPT !.calls[p].pc = pc, !.calls[p].t = t, !.calls[p].err = err]
    /\ UNCHANGED <<tasks, issued>>

\* ResolveEntityPath, ReadEntity, the assignment of upd.DependsOn and
\* t.Validate().
UpdateRead(p) ==
    LET c == out.calls[p] IN
    /\ c.pc = "read"
    /\ UNCHANGED files
    /\ IF c.taskID \notin DOMAIN files THEN UpdateStep(p, "done", <<>>, "not found")
       ELSE LET t == [files[c.taskID] EXCEPT !.deps = c.deps]
            IN IF Validate(t) # "ok" THEN UpdateStep(p, "done", t, Validate(t))
               ELSE UpdateStep(p, "validate", t, "")

\* s.validateDeps(&t, t.Project), on the store as it is at this moment.
UpdateValidate(p) ==
    LET c == out.calls[p] IN
    /\ c.pc = "validate"
    /\ UNCHANGED files
    /\ IF CheckDepsLoop(files, c.t.deps, 1, c.t.project) # "ok"
       THEN UpdateStep(p, "done", c.t, CheckDepsLoop(files, c.t.deps, 1, c.t.project))
       ELSE \E order \in ValidateOrders(files, c.t, c.t.project) :
            IF validateDeps(files, c.t, c.t.project, order) # "ok"
            THEN UpdateStep(p, "done", c.t, validateDeps(files, c.t, c.t.project, order))
            ELSE UpdateStep(p, "write", c.t, "")

\* s.WriteEntity(path, &t, body) and the return.
UpdateWrite(p) ==
    LET c == out.calls[p] IN
    /\ c.pc = "write"
    /\ files' = MapPut(files, c.taskID, c.t)
    /\ UpdateStep(p, "done", c.t, "")

NextUpdate ==
    \/ \E p \in Callers : UpdateRead(p)
    \/ \E p \in Callers : UpdateValidate(p)
    \/ \E p \in Callers : UpdateWrite(p)

SpecUpdate == InitUpdate /\ [][NextUpdate]_vars

\* ------------------------------------------------------- store.Registry
\* Store names are modelled as naturals whose order stands for the order
\* sort.Strings gives the names; Local stands for "local", with one name
\* that sorts before it and one that sorts after it.
Local == 2
StoreNames == {1, 2, 3}
ProjectKeys == {"TP", "NOPE"}

\* A registry r is [stores, projects]: r.stores maps each configured store
\* name to the project keys GetProject finds in that store, r.projects is
\* cfg.Projects (a nil map reads as the empty one).
\* s.GetProject(projectKey) succeeds.
HasProject(r, name, projectKey) == projectKey \in r.stores[name]

\* CloudStoreNames, ranging over r.stores in `order`.
CloudStoreNames(r, order) == SortStrings(SelectSeq(order, LAMBDA n : n # Local))

\* probeOrder listing the store names in sorted order, "local" among them.
probeOrder_Sorted(r, order) == SortStrings(order)

\* probeOrder: "local" first when configured, then the cloud stores.
probeOrder(r, order) ==
    (IF Local \in DOMAIN r.stores THEN <<Local>> ELSE <<>>) \o CloudStoreNames(r, order)

\* CacheProject and UncacheProject on cfg.Projects.
CacheProject(projects, key, storeName) == MapPut(projects, key, storeName)

UncacheProject(projects, key) == [k \in (DOMAIN projects) \ {key} |-> projects[k]]

\* The probe loop of ForProject from entry i of names on: the stores probed
\* up to and including the first that has the project.
RECURSIVE ProbeLoop(_, _, _, _)
ProbeLoop(r, names, i, projectKey) ==
    IF i > Len(names) THEN <<>>
    ELSE IF HasProject(r, names[i], projectKey) THEN <<names[i]>>
    ELSE <<names[i]>> \o ProbeLoop(r, names, i + 1, projectKey)

\* ForProject(projectKey): [err, name, projects, probed] with projects the
\* cache the call leaves and probed the stores the probe loop asked.
ForProject(r, projectKey, order) ==
    IF /\ projectKey \in DOMAIN r.projects
       /\ r.projects[projectKey] \in DOMAIN r.stores
       /\ HasProject(r, r.projects[projectKey], projectKey)
    THEN [err |-> "", name |-> r.projects[projectKey], projects |-> r.projects,
          probed |-> <<>>]
    ELSE LET pruned == UncacheProject(r.projects, projectKey)
             probed == ProbeLoop(r, probeOrder(r, order), 1, projectKey)
         IN IF probed # <<>> /\ HasProject(r, probed[Len(probed)], projectKey)
            THEN [err |-> "", name |-> probed[Len(probed)],
                  projects |-> CacheProject(pruned, projectKey, probed[Len(probed)]),
                  probed |-> probed]
            ELSE [err |-> "project not found on any configured store", name |-> NoId,
                  projects |-> pruned, probed |-> probed]

\* In this specification `files` holds the registry: the configured stores
\* with their projects, and cfg.Projects.
InitRegistry ==
    /\ tasks = <<>>
    /\ issued = {}
    /\ out = NoCall
    /\ \E S \in SUBSET StoreNames :
         files = [stores |-> [n \in S |-> {}], projects |-> <<>>]

\* CreateProject on one of the configured stores.
CreateProject ==
    /\ out = NoCall
    /\ \E n \in DOMAIN files.stores, key \in ProjectKeys :
        /\ key \notin files.stores[n]
        /\ files' = [files EXCEPT !.stores[n] = @ \cup {key}]
    /\ UNCHANGED <<tasks, issued, out>>

\* DeleteProject on one of the configured stores.
DeleteProject ==
    /\ out = NoCall
    /\ \E n \in DOMAIN files.stores, key \in ProjectKeys :
        /\ key \in files.stores[n]
        /\ files' = [files EXCEPT !.stores[n] = @ \ {key}]
    /\ UNCHANGED <<tasks, issued, out>>

\* r.CacheProject(key, storeName); the config file may name any store.
CallCacheProject ==
    /\ out = NoCall
    /\ \E key \in ProjectKeys, n \in StoreNames :
        files' = [files EXCEPT !.projects = CacheProject(@, key, n)]
    /\ UNCHANGED <<tasks, issued, out>>

\* r.ForProject(projectKey).
CallForProject ==
    /\ out = NoCall
    /\ \E key \in ProjectKeys, order \in RangeOrders(DOMAIN files.stores) :
        LET res == ForProject(files, key, order) IN
        /\ files' = [files EXCEPT !.projects = res.projects]
        /\ out' = [op |-> "ForProject", key |-> key, err |-> res.err,
                   name |-> res.name, probed |-> res.probed]
    /\ UNCHANGED <<tasks, issued>>

\* ForProject returns to its caller.
ReturnRegistry == out # NoCall /\ out' = NoCall /\ UNCHANGED <<tasks, files, issued>>

NextRegistry ==
    \/ CreateProject
    \/ DeleteProject
    \/ CallCacheProject
    \/ CallForProject
    \/ ReturnRegistry

SpecRegistry == InitRegistry /\ [][NextRegistry]_vars

\* =================================================================
\* Properties
\* =================================================================
\* Paths in a set E of edges <<from, to>>: a path of 1..k edges from a to b.
RECURSIVE PathWithin(_, _, _, _)
PathWithin(E, a, b, k) ==
    /\ k > 0
    /\ \/ <<a, b>> \in E
       \/ \E e \in E : e[1] = a /\ PathWithin(E, e[2], b, k - 1)

Path(E, a, b) == PathWithin(E, a, b, Cardinality(E))

Cyclic(E) == \E e \in E : Path(E, e[1], e[1])

InSeq(s, x) == \E i \in 1..Len(s) : s[i] = x

Before(s, x, y) == \E i, j \in 1..Len(s) : i < j /\ s[i] = x /\ s[j] = y

\* The graph the task list stands for: its ids, the dependency list of the
\* last record of an id, and the edges between ids of the list.
NodeIds == {tasks[i].id : i \in 1..Len(tasks)}

DistinctIds == \A i, j \in 1..Len(tasks) : i # j => tasks[i].id # tasks[j].id

LastRecord(id) ==
    tasks[CHOOSE i \in 1..Len(tasks) :
            tasks[i].id = id /\ \A j \in (i + 1)..Len(tasks) : tasks[j].id # id]

TaskEdges == {e \in NodeIds \X NodeIds : InSeq(LastRecord(e[1]).deps, e[2])}

Dangling(n) == {LastRecord(n).deps[k] : k \in 1..Len(LastRecord(n).deps)} \ NodeIds

\* The task list in ascending id order, and without its dangling entries.
TasksById ==
    LET ids == SortedIds(NodeIds) IN [i \in 1..Len(ids) |-> LastRecord(ids[i])]

StripDangling ==
    [i \in 1..Len(tasks) |->
        [tasks[i] EXCEPT !.deps = SelectSeq(tasks[i].deps, LAMBDA d : d \in NodeIds)]]

SortResult == [err |-> out.err, order |-> out.order, cycle |-> out.cycle]

\* The graph of the store: an edge for every persisted dependency between
\* two persisted tasks.
FileEdges == {e \in (DOMAIN files) \X (DOMAIN files) : InSeq(files[e[1]].deps, e[2])}

\* C1: after any sequence of store calls the dependency graph of the
\* persisted tasks has no directed cycle.
C1_NoCyclePersisted == ~Cyclic(FileEdges)

\* C2: when TopologicalSort returns an ordering, every dependency of a node
\* that is itself a node stands at a strictly earlier position than the
\* node, for every task list.
C2_DepsBeforeDependents ==
    (out.op = "TopologicalSort" /\ ~out.err)
        => \A e \in TaskEdges : Before(out.order, e[2], e[1])

C5_CycleFailsSort ==
    (out.op = "TopologicalSort" /\ Cyclic(TaskEdges))
        => (out.err /\ out.order = <<>>)

\* C6: for task records with distinct ids, the result of TopologicalSort is
\* the same for every ordering of the list and every iteration order of the
\* maps: it is the result for the list in id order, iterated in id order.
C6_SortIsDeterministic ==
    (out.op = "TopologicalSort" /\ DistinctIds)
        => SortResult = TopologicalSort(BuildFromTasks(TasksById), SortedIds(NodeIds))

\* A list that is not in id order, two nodes eligible at the start, sorted.
C6_Witness ==
    /\ out.op = "TopologicalSort"
    /\ ~out.err
    /\ DistinctIds
    /\ Cardinality(NodeIds) = 3
    /\ tasks # TasksById
    /\ Cardinality({n \in NodeIds : \A e \in TaskEdges : e[1] # n}) = 2

\* C7: ValidateAcyclic's verdict and TopologicalSort's result are those for
\* the task list without its dangling dependency ids, and a reported cycle
\* names nodes only.
C7_DanglingIsInert ==
    LET g0 == BuildFromTasks(StripDangling) IN
    /\ out.op = "ValidateAcyclic"
         => /\ \A o \in RangeOrders(NodeIds) : ValidateAcyclic(g0, o).err = out.err
            /\ \A k \in 1..Len(out.cycle) : out.cycle[k] \in NodeIds
    /\ out.op = "TopologicalSort"
         => \A o \in RangeOrders(NodeIds) : TopologicalSort(g0, o) = SortResult

\* A node with a dangling dependency and a dependency on a node, sorted.
C7_Witness ==
    /\ out.op = "TopologicalSort"
    /\ ~out.err
    /\ \E e \in TaskEdges : Dangling(e[1]) # {}

\* C8: IsBlocked(t, all) is true exactly when some id of t.DependsOn is
\* absent from the map or maps to a task that is not closed.
C8_BlockedIffOpenOrMissingDep ==
    out.op = "IsBlocked"
        => (out.blocked <=>
              \E k \in 1..Len(tasks[1].deps) :
                 \/ tasks[1].deps[k] \notin DOMAIN files
                 \/ files[tasks[1].deps[k]].status # StatusClosed)

\* A task is blocked by a missing dependency while its other one is closed.
C8_Witness ==
    /\ out.op = "IsBlocked"
    /\ out.blocked
    /\ Len(tasks[1].deps) = 2
    /\ tasks[1].deps[1] \in DOMAIN files
    /\ files[tasks[1].deps[1]].status = StatusClosed
    /\ tasks[1].deps[2] \notin DOMAIN files

\* A persisted task is blocked: one of its dependencies names no persisted
\* task or a task that is not closed.
BlockedFile(id) ==
    \E k \in 1..Len(files[id].deps) :
        \/ files[id].deps[k] \notin DOMAIN files
        \/ files[files[id].deps[k]].status # StatusClosed

\* The persisted tasks of type task that are open and not blocked.
ReadyFiles ==
    {files[id] : id \in {i \in DOMAIN files :
                            /\ files[i].type = TypeTask
                            /\ files[i].status = StatusOpen
                            /\ ~BlockedFile(i)}}

\* C9: ReadyTasks returns exactly the persisted tasks of the project's
\* directory that have type task, are open and are not blocked, each once,
\* whether or not the graph is cyclic.
C9_ReadyIsOpenUnblockedTasks ==
    out.op = "ReadyTasks"
        => LET want == IF out.project = ProjP THEN ReadyFiles ELSE {} IN
           /\ {out.ready[i] : i \in 1..Len(out.ready)} = want
           /\ Len(out.ready) = Cardinality(want)

\* ReadyTasks has answered on a cyclic graph that has a ready task.
C9_Witness ==
    /\ out.op = "ReadyTasks"
    /\ out.project = ProjP
    /\ Cyclic(FileEdges)
    /\ Len(out.ready) > 0

\* C10: when the graph of the project's tasks is acyclic, ReadyTasks returns
\* the candidates in the relative order of TopologicalSort over the
\* project's tasks (the records of type task, which ReadyTasks sorts), and a
\* candidate that depends, through other tasks, on another candidate comes
\* after it.
C10_ReadyInTopologicalOrder ==
    (out.op = "ReadyTasks" /\ out.project = ProjP /\ ~Cyclic(FileEdges))
        => LET topo == TopologicalSort(BuildFromTasks(ListTasks(files, ProjP, TypeTask)),
                                       SortedIds({i \in DOMAIN files : files[i].type = TypeTask}))
           IN /\ ~topo.err
              /\ \A i, j \in 1..Len(out.ready) :
                    /\ i < j => Before(topo.order, out.ready[i].id, out.ready[j].id)
                    /\ Path(FileEdges, out.ready[j].id, out.ready[i].id) => i < j

\* Two candidates, the second depending on the first through a closed task,
\* and the first with the greater id.
C10_Witness ==
    /\ out.op = "ReadyTasks"
    /\ Len(out.ready) = 2
    /\ out.ready[1].id > out.ready[2].id
    /\ \E c \in DOMAIN files :
          /\ files[c].status = StatusClosed
          /\ <<out.ready[2].id, c>> \in FileEdges
          /\ <<c, out.ready[1].id>> \in FileEdges

\* The ready files in the order ListTasks lists them: ascending file name.
ReadyInListedOrder ==
    LET ids == SortedIds({f.id : f \in ReadyFiles})
    IN [i \in 1..Len(ids) |-> files[ids[i]]]

\* C11: when the persisted tasks of the project contain a dependency cycle,
\* ReadyTasks returns no error and returns exactly the candidates, in the
\* order in which the tasks were listed.
C11_CycleFallsBackToListedOrder ==
    (out.op = "ReadyTasks" /\ out.project = ProjP /\ Cyclic(FileEdges))
        => (out.err = "" /\ out.ready = ReadyInListedOrder)

\* ReadyTasks has answered on a cyclic graph with two candidates, one of
\* them on the cycle.
C11_Witness ==
    /\ out.op = "ReadyTasks"
    /\ out.project = ProjP
    /\ Len(out.ready) = 2
    /\ \E i \in 1..2 : Path(FileEdges, out.ready[i].id, out.ready[i].id)

\* In the store fs, y is an open task of type task and x is its only
\* dependency that is not closed.
OnlyOpenDep(fs, y, x) ==
    /\ x # y
    /\ y \in DOMAIN fs
    /\ x \in DOMAIN fs
    /\ fs[y].type = TypeTask
    /\ fs[y].status = StatusOpen
    /\ InSeq(fs[y].deps, x)
    /\ fs[x].status # StatusClosed
    /\ \A k \in 1..Len(fs[y].deps) :
          fs[y].deps[k] # x
              => (fs[y].deps[k] \in DOMAIN fs /\ fs[fs[y].deps[k]].status = StatusClosed)

ReadyIds(ready) == {ready[i].id : i \in 1..Len(ready)}

\* C12: while X, the only dependency of the open task Y that is not closed,
\* is open or in progress, a ReadyTasks call does not return Y; once an
\* UpdateTask call has set X to closed, ReadyTasks on the store as that call
\* leaves it returns Y and does not return X.
C12_UnblocksAfterClose ==
    [][\A x, y \in Ids :
          OnlyOpenDep(files, y, x)
            => /\ (out'.op = "ReadyTasks" /\ out'.project = ProjP)
                     => y \notin ReadyIds(out'.ready)
               /\ (/\ out'.op = "UpdateTask"
                   /\ out'.err = ""
                   /\ files' = [files EXCEPT ![x].status = StatusClosed])
                     => \A order \in RangeOrders({i \in DOMAIN files' :
                                                       files'[i].type = TypeTask}) :
                           /\ y \in ReadyIds(ReadyTasks(files', ProjP, order))
                           /\ x \notin ReadyIds(ReadyTasks(files', ProjP, order))]_vars

\* UpdateTask has closed a task on which an open task depends, and that
\* task is now ready.
C12_Witness ==
    /\ out.op = "UpdateTask"
    /\ out.err = ""
    /\ files[out.id].status = StatusClosed
    /\ \E y \in DOMAIN files :
          /\ InSeq(files[y].deps, out.id)
          /\ files[y] \in ReadyFiles

\* C13: no persisted epic-type task has dependencies, and no persisted task
\* lists an epic-type task among its dependencies.
C13_EpicsHaveNoEdges ==
    \A i \in DOMAIN files :
        /\ files[i].type = TypeEpic => files[i].deps = <<>>
        /\ \A k \in 1..Len(files[i].deps) :
              files[i].deps[k] \in DOMAIN files
                  => files[files[i].deps[k]].type # TypeEpic

\* C14: a CheckinTask call that fails leaves the local file in place and
\* the store as it was; one that succeeds leaves the store holding the
\* local file's content for the task and the local file removed.
C14_CheckinKeepsOrMoves ==
    [][out'.op = "CheckinTask"
         => IF out'.err # ""
            THEN files' = files /\ out'.local
            ELSE /\ ~out'.local
                 /\ out'.id \in DOMAIN files
                 /\ files' = [files EXCEPT ![out'.id] = out'.file]]_vars

\* A check-in refused for a cycle, the local file kept.
C14_Witness ==
    /\ out.op = "CheckinTask"
    /\ out.err = "cycle detected"
    /\ out.local

C16_RootsAreNodesWithoutDeps ==
    out.op = "Roots"
        => out.result = SortedIds({n \in NodeIds : LastRecord(n).deps = <<>>})

\* Roots has answered with the one root of a graph whose other node has a
\* dangling dependency only.
C16_Witness ==
    /\ out.op = "Roots"
    /\ Len(out.result) = 1
    /\ Cardinality(NodeIds) = 2
    /\ \E n \in NodeIds :
          /\ LastRecord(n).deps # <<>>
          /\ \A e \in TaskEdges : e[1] # n

\* C17: Leaves returns exactly the nodes that occur in the dependency list
\* of no other node, taking the last record of every id, in ascending
\* order.
C17_LeavesHaveNoDependents ==
    out.op = "Leaves"
        => out.result =
             SortedIds({n \in NodeIds :
                          \A m \in NodeIds \ {n} : ~InSeq(LastRecord(m).deps, n)})

\* C18: TransitiveDeps(id) returns exactly the nodes that are reachable from
\* id along one or more dependency edges, each once; nothing when id is
\* unknown or has no dependencies.
C18_TransitiveDepsAreReachableNodes ==
    out.op = "TransitiveDeps"
        => /\ {out.result[i] : i \in 1..Len(out.result)}
                 = {n \in NodeIds : Path(TaskEdges, out.id, n)}
           /\ \A i, j \in 1..Len(out.result) : i # j => out.result[i] # out.result[j]

\* C19: for every task list and every id, the result of TransitiveDeps(id)
\* does not contain id.
C19_TransitiveDepsExcludeSelf ==
    out.op = "TransitiveDeps" => ~InSeq(out.result, out.id)

\* C20: when TopologicalSort fails, its error carries the ordered ids of a
\* cycle of the graph, as the error of ValidateAcyclic does.
C20_SortErrorCarriesCycle ==
    (out.op = "TopologicalSort" /\ out.err)
        => /\ Len(out.cycle) >= 2
           /\ out.cycle[1] = out.cycle[Len(out.cycle)]
           /\ \A i \in 1..(Len(out.cycle) - 1) :
                 <<out.cycle[i], out.cycle[i + 1]>> \in TaskEdges

\* Occurrences of x in the sequence s.
Count(s, x) == Cardinality({i \in 1..Len(s) : s[i] = x})

\* C21: after BuildFromTasks on any task list the reverse map is the
\* inverse of the edge map: edges[t] is the depends_on of the last record
\* of t, and t occurs in Dependents(d) exactly as often as d occurs in that
\* depends_on (not at all when t is no node).
C21_RevIsInverseOfEdges ==
    out.op = "Dependents" =>
        /\ \A t \in NodeIds : BuildFromTasks(tasks).edges[t] = LastRecord(t).deps
        /\ \A t \in Ids :
              Count(out.result, t) =
                  (IF t \in NodeIds THEN Count(LastRecord(t).deps, out.id) ELSE 0)

\* C22: no operation on a built graph changes its nodes, edges or reverse
\* edges, the order of the entries of their lists included.  The other
\* operations assign to no map or slice of the graph; RenderASCII is the
\* one that writes through a slice it shares with the graph, so the graph
\* it leaves is compared with the graph it was given.
C22_OperationsLeaveGraphAlone ==
    out.op = "RenderASCII" => out.graph = BuildFromTasks(tasks)

\* C23: two concurrent UpdateTask calls that replace the depends_on of two
\* different tasks of one project leave an acyclic store once both have
\* returned, however their reads, validations and writes interleave.
C23_ConcurrentUpdatesStayAcyclic ==
    (\A p \in Callers : out.calls[p].pc = "done") => ~Cyclic(FileEdges)

\* The stores of the registry in `files` that have the project.
StoresWith(key) == {n \in DOMAIN files.stores : key \in files.stores[n]}

\* The cache answers for key: it names a configured store that has it.
CacheHit(key) ==
    /\ key \in DOMAIN files.projects
    /\ files.projects[key] \in StoresWith(key)

\* The store the probe order reaches first: "local" if it has the project,
\* else the store of smallest name that has it.
FirstInProbeOrder(key) ==
    IF Local \in StoresWith(key) THEN Local
    ELSE CHOOSE n \in StoresWith(key) : \A m \in StoresWith(key) : n <= m

\* C24: ForProject(key) succeeds exactly when some store has the project;
\* on success the returned store has the project and the cache maps key to
\* its name; on failure the cache has no entry for key; and when the cache
\* does not answer, the store returned is the first in probe order
\* ("local", then the others by name) that has the project.
C24_ForProjectResolves ==
    [][(out = NoCall /\ out'.op = "ForProject") =>
         LET key == out'.key IN
         /\ (out'.err = "") <=> (StoresWith(key) # {})
         /\ out'.err = "" =>
              /\ out'.name \in StoresWith(key)
              /\ key \in DOMAIN files'.projects
              /\ files'.projects[key] = out'.name
         /\ out'.err # "" => key \notin DOMAIN files'.projects
         /\ (out'.err = "" /\ CacheHit(key)) => out'.name = files.projects[key]
         /\ (out'.err = "" /\ ~CacheHit(key)) => out'.name = FirstInProbeOrder(key)
         /\ files'.stores = files.stores
      ]_vars

\* ForProject probed "local" and returned it although a store of smaller
\* name has the project too, after pruning a stale cache entry.
C24_Witness ==
    /\ out.op = "ForProject"
    /\ out.err = ""
    /\ out.probed = <<Local>>
    /\ \E n \in StoresWith(out.key) : n < Local
    /\ files.projects[out.key] = Local

\* The nodes that may be emitted once the ids in E have been: not in E, and
\* every dependency that names a node is in E.
Eligible(E) ==
    {n \in NodeIds \ E :
        \A k \in 1..Len(LastRecord(n).deps) :
            LastRecord(n).deps[k] \in NodeIds => LastRecord(n).deps[k] \in E}

Prefix(s, k) == {s[i] : i \in 1..k}

\* s is a topological order of the task list: every node once, and each
\* after the nodes it depends on.
IsTopologicalOrder(s) ==
    /\ Len(s) = Cardinality(NodeIds)
    /\ Prefix(s, Len(s)) = NodeIds
    /\ \A k \in 1..Len(s) : s[k] \in Eligible(Prefix(s, k - 1))

\* s comes before t, or is t, in lexicographic order.
RECURSIVE LexLeq(_, _)
LexLeq(s, t) ==
    IF s = <<>> THEN TRUE
    ELSE IF t = <<>> THEN FALSE
    ELSE IF Head(s) # Head(t) THEN Head(s) < Head(t)
    ELSE LexLeq(Tail(s), Tail(t))

\* C25: every id TopologicalSort emits is the smallest of the nodes that
\* are not emitted yet and have all their resolvable dependencies emitted;
\* for an acyclic graph the result is the lexicographically smallest
\* topological order.
C25_SortEmitsSmallestEligible ==
    (out.op = "TopologicalSort" /\ ~out.err) =>
        /\ \A k \in 1..Len(out.order) :
              /\ out.order[k] \in Eligible(Prefix(out.order, k - 1))
              /\ \A m \in Eligible(Prefix(out.order, k - 1)) : out.order[k] <= m
        /\ ~Cyclic(TaskEdges) =>
              /\ IsTopologicalOrder(out.order)
              /\ \A p \in RangeOrders(NodeIds) :
                    IsTopologicalOrder(p) => LexLeq(out.order, p)

\* C26: a ValidateAcyclic run that returns no error has called dfs on
\* every node exactly once, on nothing else, and has left every node done
\* (black).
C26_DfsEntersEachNodeOnce ==
    (out.op = "ValidateAcyclic" /\ ~out.err) =>
        /\ \A n \in NodeIds : Count(out.entered, n) = 1 /\ out.color[n] = black
        /\ \A k \in 1..Len(out.entered) : out.entered[k] \in NodeIds

\* A successful run over three nodes, one of them reached from both others:
\* the search meets a finished node again.
C26_Witness ==
    /\ out.op = "ValidateAcyclic"
    /\ ~out.err
    /\ Len(out.entered) = 3
    /\ \E d \in NodeIds : Cardinality({e \in TaskEdges : e[2] = d /\ e[1] # d}) = 2

\* C27: a CreateTask or UpdateTask call that returns an error creates and
\* modifies no task file: the persisted tasks and their fields are the
\* same before and after the call.
C27_FailedWriteLeavesStore ==
    [][(out = NoCall /\ out'.op \in {"CreateTask", "UpdateTask"} /\ out'.err # "")
          => files' = files]_vars

\* UpdateTask was refused with the cycle error on a store that has tasks.
C27_Witness ==
    /\ out.op = "UpdateTask"
    /\ out.err = "cycle detected"
    /\ FileEdges # {}

\* C30: after any sequence of CreateTask, UpdateTask and DeleteTask calls
\* every id in a persisted task's depends_on names a persisted task of the
\* same project.
C30_NoDanglingDependency ==
    \A i \in DOMAIN files : \A k \in 1..Len(files[i].deps) :
        /\ files[i].deps[k] \in DOMAIN files
        /\ files[files[i].deps[k]].project = files[i].project

\* C28: on every task list ValidateAcyclic returns an error exactly when
\* TopologicalSort does, whatever order the map iterations take.
C28_ValidatorAndSorterAgree ==
    out.op = "ValidateAcyclic" =>
        \A order \in RangeOrders(DOMAIN BuildFromTasks(tasks).nodes) :
            out.err = TopologicalSort(BuildFromTasks(tasks), order).err

\* The running call has returned.
Returned == out.op # "none" /\ out.pc = "done"

\* C29: ValidateAcyclic (its cycle-path reconstruction included),
\* TopologicalSort and TransitiveDeps terminate on every task list: a call
\* that has been entered returns.
C29_CallsTerminate == (out.op # "none") ~> Returned

\* ValidateAcyclic returned a cycle of two nodes, rebuilt over the parent
\* map, on a task list with a repeated id.
C29_Witness ==
    /\ Returned
    /\ out.op = "ValidateAcyclic"
    /\ out.err
    /\ Len(out.path) = 3
    /\ ~DistinctIds

====
